---- MODULE Spec2Model ----
(***************************************************************************)
(* Orbital analytics engine of OrbitViz: the pass prediction scan          *)
(* (calculatePasses), its batch form (getUpcomingPasses) with the observer *)
(* location entry that feeds it, and the conjunction search                *)
(* (findAllConjunctions, findCloseApproaches) with its helpers.            *)
(*                                                                         *)
(* Times are milliseconds, as in the Date arithmetic of the source.        *)
(* Elevations and azimuths are whole degrees.  Positions and distances are *)
(* whole metres on a line; the source's kilometre thresholds are converted *)
(* by Km.  Floating point rounding is not modelled.                        *)
(***************************************************************************)
EXTENDS Integers, Sequences, FiniteSets, Bags, TLC

VARIABLES
    \* ---- calculatePasses(sat, observerGd, startTime, duration) ----
    sky,          \* argument sat: its orbit as seen by the observer (propagate/getLookAngle)
    startArg,     \* argument startTime (ms)
    durationArg,  \* argument duration (ms)
    time,         \* local `time`
    inPass,       \* local `inPass`
    currentPass,  \* local `currentPass`
    passes,       \* local `passes`, the value returned
    ppc,          \* position in calculatePasses: "scan" (the while loop) or "done" (returned)
    sampled,      \* history: the outcome of propagation at every instant sampled so far
    \* ---- findAllConjunctions / findCloseApproaches ----
    catalog,      \* the satellite records: noradId -> {noradId, altitude, satrec}
    call,         \* the arguments of the call made
    result,       \* the array the call returned
    cpc,          \* "idle" before the call, "returned" after it
    \* ---- getUpcomingPasses(satellites, observerGd, limit) ----
    satellitesArg, \* argument satellites (the caller's satsToCheck)
    observerArg,  \* argument observerGd of the latest call
    limitArg,     \* argument limit
    satIndex,     \* position of the for loop in satellites (from 1)
    allPasses,    \* local `allPasses`
    upResult,     \* the array the latest call returned
    upc,          \* "idle" (not used), "ready", "loop" (in the for loop), "returned"
    now,          \* the clock read by new Date() (ms)
    computed,     \* history: what calculatePasses returned for each satellite of this call
    previous,     \* history: the array returned by the call before the latest, if any
    \* ---- FlyoverPredictions ----
    locationInput, \* component state: the texts of the two manual entry fields
    userLocation, \* store: the observer location, or null
    \* ---- useWebSocket ----
    wsEnabled,    \* store: wsEnabled
    hook,         \* "idle" (not used), "unmounted", "mounted", "gone" (unmounted again)
    ws,           \* the refs and the state of the hook, with history fields
    switches,     \* history: how many times wsEnabled was switched
    \* ---- NotificationService ----
    notifications, \* this.notifications, newest first
    scheduledNotifications, \* this.scheduledNotifications: id -> {timeoutId, title, triggerTime}
    timeouts,     \* the pending timeouts of setTimeout: timeoutId -> {id, title, triggerTime}
    timeoutCount, \* how many timeouts were set
    dateNow,      \* the clock read by Date.now() (ms)
    lastCall      \* history: the latest call or callback of the service

passVars == <<sky, startArg, durationArg, time, inPass, currentPass, passes, ppc, sampled>>

conjVars == <<catalog, call, result, cpc>>

upVars == <<satellitesArg, observerArg, limitArg, satIndex, allPasses, upResult, upc, now,
            computed, previous>>

locVars == <<locationInput, userLocation>>

wsVars == <<wsEnabled, hook, ws, switches>>

ntfVars == <<notifications, scheduledNotifications, timeouts, timeoutCount, dateNow, lastCall>>

vars == <<passVars, conjVars, upVars, locVars, wsVars, ntfVars>>

-----------------------------------------------------------------------------
(* Bounds of the model *)

\* the search horizon spans at most MaxSteps sampling steps
MaxSteps == 4

\* findAllConjunctions is given at most MaxSats records
MaxSats == 3

\* findCloseApproaches looks at most MaxAheadSteps 5-minute steps ahead
MaxAheadSteps == 1

\* while a batch runs the clock advances by at most MaxClock quarter steps
MaxClock == 1

-----------------------------------------------------------------------------
(* Constants of frontend/src/services (pass prediction) *)

MIN_ELEVATION == 10

TIME_STEP == 60 * 1000

\* a quarter of the sampling step: the grid on which visibility windows begin
Granule == TIME_STEP \div 4

HalfStep == TIME_STEP \div 2

-----------------------------------------------------------------------------
(* Inputs *)

Elevations == {5, 10, 40}

Azimuths == {90, 350}

\* what one sampled instant can give: a look angle, no position, or an exception
LookAngles == [kind : {"ok"}, elevation : Elevations, azimuth : Azimuths]

Failures == {[kind |-> "nopos"], [kind |-> "throw"]}

Outcomes == LookAngles \cup Failures

StartTimes == {0, Granule}

Durations == {k * HalfStep : k \in 0..(2 * MaxSteps)}

\* lengths of the visibility windows of the duration-filter scenario: 30 s and 90 s
ShortWindow == HalfStep

LongWindow == 3 * HalfStep

\* an orbit is either unconstrained (every sample may give any outcome) or a
\* single visibility window [from, from + len) above the threshold
\* (the batch scenario adds orbits on which every propagation fails)
Skies ==
    {[kind |-> "free"]}
    \cup [kind : {"window"},
          from : {k * Granule : k \in 0..(4 * MaxSteps)},
          len : {ShortWindow, LongWindow}]

\* the outcomes satellite.propagate + getLookAngle can give at instant t
Sky(t) ==
    IF sky.kind = "free" THEN Outcomes
    ELSE IF sky.kind = "broken" THEN {[kind |-> "throw"]}
    ELSE IF sky.kind = "decayed" THEN {[kind |-> "nopos"]}
    ELSE IF sky.from <= t /\ t < sky.from + sky.len
         THEN {[kind |-> "ok", elevation |-> 40, azimuth |-> 90]}
         ELSE {[kind |-> "ok", elevation |-> 5, azimuth |-> 90]}

-----------------------------------------------------------------------------
(* calculatePasses *)

Directions ==
    <<"N", "NNE", "NE", "ENE", "E", "ESE", "SE", "SSE",
      "S", "SSW", "SW", "WSW", "W", "WNW", "NW", "NNW">>

\* Math.round(azimuth / 22.5) % 16, Math.round being floor(x + 0.5)
getCardinalDirection(azimuth) ==
    Directions[(((4 * azimuth + 45) \div 90) % 16) + 1]

NullPass == [null |-> TRUE]

\* faulty variant of AboveThreshold: any object above the horizon counts as visible
AboveHorizon(la) == la.elevation >= 0

AboveThreshold(la) == la.elevation >= MIN_ELEVATION

\* currentPass = { satellite, startTime, startAzimuth, ... points: [] }
NewPass(t, la) ==
    [satellite |-> sky,
     startTime |-> t,
     startAzimuth |-> la.azimuth,
     startDirection |-> getCardinalDirection(la.azimuth),
     maxElevation |-> la.elevation,
     maxElevationTime |-> t,
     maxAzimuth |-> la.azimuth,
     points |-> <<>>]

\* faulty variant of TrackMax: the azimuth of the maximum is not updated
TrackMaxKeepAzimuth(p, t, la) ==
    IF la.elevation > p.maxElevation
    THEN [p EXCEPT !.maxElevation = la.elevation, !.maxElevationTime = t]
    ELSE p

\* if (lookAngles.elevation > currentPass.maxElevation) { ... }
TrackMax(p, t, la) ==
    IF la.elevation > p.maxElevation
    THEN [p EXCEPT !.maxElevation = la.elevation,
                   !.maxElevationTime = t,
                   !.maxAzimuth = la.azimuth]
    ELSE p

\* currentPass.points.push({ time, azimuth, elevation, range })
PushPoint(p, t, la) ==
    [p EXCEPT !.points =
        Append(@, [time |-> t, azimuth |-> la.azimuth, elevation |-> la.elevation])]

\* faulty variant of ClosePass: the pass ends at its last visible sample
ClosePassAtLastPoint(p, t, la) ==
    p @@ [endTime |-> p.points[Len(p.points)].time,
          endAzimuth |-> la.azimuth,
          endDirection |-> getCardinalDirection(la.azimuth),
          duration |-> (t - p.startTime) \div 1000]

\* End of pass: endTime, endAzimuth, endDirection, duration (seconds)
ClosePass(p, t, la) ==
    p @@ [endTime |-> t,
          endAzimuth |-> la.azimuth,
          endDirection |-> getCardinalDirection(la.azimuth),
          duration |-> (t - p.startTime) \div 1000]

\* faulty variant of AcceptClosed: a pass of one step is not kept
AcceptClosedLong(p) == p.duration > 60 /\ p.maxElevation >= MIN_ELEVATION

\* if (currentPass.duration >= 60 && currentPass.maxElevation >= MIN_ELEVATION)
AcceptClosed(p) == p.duration >= 60 /\ p.maxElevation >= MIN_ELEVATION

\* pass that extends beyond the prediction window: endTime = time, duration
CloseAtHorizon(p, t) ==
    p @@ [endTime |-> t, duration |-> (t - p.startTime) \div 1000]

\* faulty variant of AcceptAtHorizon: strict comparison
AcceptAtHorizonStrict(p) == p.duration > 60

\* if (currentPass.duration >= 60)
AcceptAtHorizon(p) == p.duration >= 60

EndTime == startArg + durationArg

Scanning == ppc = "scan" /\ time < EndTime

Advance == time' = time + TIME_STEP

\* faulty variant of ScanNoPosition: continue without the time step
ScanNoPositionStalled ==
    /\ Scanning
    /\ [kind |-> "nopos"] \in Sky(time)
    /\ sampled' = Append(sampled, [time |-> time, out |-> [kind |-> "nopos"]])
    /\ UNCHANGED <<sky, startArg, durationArg, time, inPass, currentPass, passes, ppc,
                   conjVars, upVars, locVars, wsVars, ntfVars>>

\* if (!positionAndVelocity.position) { time += TIME_STEP; continue }
ScanNoPosition ==
    /\ Scanning
    /\ [kind |-> "nopos"] \in Sky(time)
    /\ sampled' = Append(sampled, [time |-> time, out |-> [kind |-> "nopos"]])
    /\ Advance
    /\ UNCHANGED <<sky, startArg, durationArg, inPass, currentPass, passes, ppc, conjVars, upVars, locVars, wsVars, ntfVars>>

\* faulty variant of ScanThrow: the catch block drops the open pass
ScanThrowDiscarding ==
    /\ Scanning
    /\ [kind |-> "throw"] \in Sky(time)
    /\ sampled' = Append(sampled, [time |-> time, out |-> [kind |-> "throw"]])
    /\ inPass' = FALSE
    /\ currentPass' = NullPass
    /\ Advance
    /\ UNCHANGED <<sky, startArg, durationArg, passes, ppc, conjVars, upVars, locVars, wsVars, ntfVars>>

\* propagate / gstime / eciToEcf / getLookAngle throws: caught, the instant is skipped
ScanThrow ==
    /\ Scanning
    /\ [kind |-> "throw"] \in Sky(time)
    /\ sampled' = Append(sampled, [time |-> time, out |-> [kind |-> "throw"]])
    /\ Advance
    /\ UNCHANGED <<sky, startArg, durationArg, inPass, currentPass, passes, ppc, conjVars, upVars, locVars, wsVars, ntfVars>>

\* elevation >= MIN_ELEVATION: open a pass if none is open, track the maximum, store the point
ScanAbove ==
    /\ Scanning
    /\ \E la \in Sky(time) :
        /\ la.kind = "ok"
        /\ AboveThreshold(la)
        /\ LET opened == IF ~inPass THEN NewPass(time, la) ELSE currentPass
           IN currentPass' = PushPoint(TrackMax(opened, time, la), time, la)
        /\ inPass' = TRUE
        /\ sampled' = Append(sampled, [time |-> time, out |-> la])
    /\ Advance
    /\ UNCHANGED <<sky, startArg, durationArg, passes, ppc, conjVars, upVars, locVars, wsVars, ntfVars>>

\* elevation below the threshold while in a pass: the pass ends
ScanBelowInPass ==
    /\ Scanning
    /\ inPass
    /\ \E la \in Sky(time) :
        /\ la.kind = "ok"
        /\ ~AboveThreshold(la)
        /\ LET closed == ClosePass(currentPass, time, la)
           IN passes' = IF AcceptClosed(closed) THEN Append(passes, closed) ELSE passes
        /\ sampled' = Append(sampled, [time |-> time, out |-> la])
    /\ inPass' = FALSE
    /\ currentPass' = NullPass
    /\ Advance
    /\ UNCHANGED <<sky, startArg, durationArg, ppc, conjVars, upVars, locVars, wsVars, ntfVars>>

\* elevation below the threshold and no pass open: nothing but the time step
ScanBelowIdle ==
    /\ Scanning
    /\ ~inPass
    /\ \E la \in Sky(time) :
        /\ la.kind = "ok"
        /\ ~AboveThreshold(la)
        /\ sampled' = Append(sampled, [time |-> time, out |-> la])
    /\ Advance
    /\ UNCHANGED <<sky, startArg, durationArg, inPass, currentPass, passes, ppc, conjVars, upVars, locVars, wsVars, ntfVars>>

\* the loop ends: an open pass is closed with endTime = time; return passes
ReturnPasses ==
    /\ ppc = "scan"
    /\ ~(time < EndTime)
    /\ IF inPass /\ currentPass # NullPass
       THEN LET closed == CloseAtHorizon(currentPass, time)
            IN /\ currentPass' = closed
               /\ passes' = IF AcceptAtHorizon(closed) THEN Append(passes, closed) ELSE passes
       ELSE UNCHANGED <<currentPass, passes>>
    /\ ppc' = "done"
    /\ UNCHANGED <<sky, startArg, durationArg, time, inPass, sampled, conjVars, upVars, locVars, wsVars, ntfVars>>

PassInit ==
    /\ sky \in Skies
    /\ startArg \in StartTimes
    /\ durationArg \in Durations
    /\ time = startArg
    /\ inPass = FALSE
    /\ currentPass = NullPass
    /\ passes = <<>>
    /\ ppc = "scan"
    /\ sampled = <<>>

\* calculatePasses is not running
PassIdle ==
    /\ sky = [kind |-> "free"]
    /\ startArg = 0
    /\ durationArg = 0
    /\ time = 0
    /\ inPass = FALSE
    /\ currentPass = NullPass
    /\ passes = <<>>
    /\ ppc = "idle"
    /\ sampled = <<>>

PassNext ==
    \/ ScanNoPosition
    \/ ScanThrow
    \/ ScanAbove
    \/ ScanBelowInPass
    \/ ScanBelowIdle
    \/ ReturnPasses

-----------------------------------------------------------------------------
(* Constants of frontend/src/services/collisionService.js (kilometres) *)

CRITICAL == 1

HIGH == 5

MODERATE == 10

LOW == 25

\* kilometres to the model's metres
Km(x) == x * 1000

\* getPositionAtTime returned null (no position, or propagate threw)
NoPos == 0 - 1

\* calculateDistance returned null; minDistanceTime initially null
Null == 0 - 1

\* the initial minDistance: above every distance and every threshold of the model
Infinity == 10 ^ 9

Abs(x) == IF x < 0 THEN 0 - x ELSE x

Min(a, b) == IF a < b THEN a ELSE b

-----------------------------------------------------------------------------
(* Inputs of the conjunction search *)

NoradIds == {1, 2}

\* stored altitude attributes (km): differences 0, 50, 100 and 150
Altitudes == {400, 450, 550}

\* positions at the reference time (metres along a line), or no position
ConjPositions == {NoPos, 0, 999, 5000, 10000, 25000, 26000}

\* 5 minutes, the sampling step of findCloseApproaches
StepMs == 5 * 60 * 1000

\* the instants findCloseApproaches can sample from startTime 0
Instants(n) == {k * StepMs : k \in 0..n}

Thresholds == {25, 30}

MaxResultsValues == {1, 50}

Records(ids, alts, instants, positions) ==
    [noradId : ids, altitude : alts, satrec : [instants -> positions]]

\* a catalogue gives each noradId one record
Catalogs(alts, instants, positions) ==
    {c \in [NoradIds -> Records(NoradIds, alts, instants, positions)] :
        \A id \in NoradIds : c[id].noradId = id}

\* lists of length 0..n of the given noradIds
IdLists(ids, n) == UNION {[1..k -> ids] : k \in 0..n}

SatList(ids) == [k \in DOMAIN ids |-> catalog[ids[k]]]

-----------------------------------------------------------------------------
(* collisionService.js *)

\* satellite.propagate(satrec, date), null when it gives no position or throws
getPositionAtTime(satrec, t) == satrec[t]

\* faulty variant of calculateDistance: only the first position is tested
calculateDistanceFirstTested(sat1, sat2, t) ==
    LET pos1 == getPositionAtTime(sat1.satrec, t)
        pos2 == getPositionAtTime(sat2.satrec, t)
    IN IF pos1 = NoPos THEN Null ELSE Abs(pos1 - pos2)

\* the separation of the two positions, null when either is missing; the
\* scaling by SCALE_FACTOR and back is exact here
calculateDistance(sat1, sat2, t) ==
    LET pos1 == getPositionAtTime(sat1.satrec, t)
        pos2 == getPositionAtTime(sat2.satrec, t)
    IN IF pos1 = NoPos \/ pos2 = NoPos THEN Null ELSE Abs(pos1 - pos2)

\* faulty variant of getRiskLevel: the band limits are inclusive
getRiskLevelInclusive(distance) ==
    IF distance <= Km(CRITICAL) THEN "critical"
    ELSE IF distance <= Km(HIGH) THEN "high"
    ELSE IF distance <= Km(MODERATE) THEN "moderate"
    ELSE IF distance <= Km(LOW) THEN "low"
    ELSE "safe"

getRiskLevel(distance) ==
    IF distance < Km(CRITICAL) THEN "critical"
    ELSE IF distance < Km(HIGH) THEN "high"
    ELSE IF distance < Km(MODERATE) THEN "moderate"
    ELSE IF distance < Km(LOW) THEN "low"
    ELSE "safe"

\* faulty variant of calculateCollisionProbability: in the high band the
\* value grows with the distance
calculateCollisionProbabilityRising(distance) ==
    IF distance < Km(CRITICAL)
    THEN Min(99000000, 100000000 - distance * 50000)
    ELSE IF distance < Km(HIGH)
    THEN 10000000 + (distance - Km(CRITICAL)) * 8000
    ELSE IF distance < Km(MODERATE)
    THEN 1000000 + (Km(MODERATE) - distance) * 900
    ELSE IF distance < Km(LOW)
    THEN 100000 + (Km(LOW) - distance) * 36
    ELSE 10000

\* the simplified probability model, in units of 10^-8 (exact on metres)
calculateCollisionProbability(distance) ==
    IF distance < Km(CRITICAL)
    THEN Min(99000000, 100000000 - distance * 50000)
    ELSE IF distance < Km(HIGH)
    THEN 10000000 + (Km(HIGH) - distance) * 8000
    ELSE IF distance < Km(MODERATE)
    THEN 1000000 + (Km(MODERATE) - distance) * 900
    ELSE IF distance < Km(LOW)
    THEN 100000 + (Km(LOW) - distance) * 36
    ELSE 10000

\* `${satellites[i].noradId}-${satellites[j].noradId}`: the two ids in list
\* order; distinct id pairs give distinct strings
PairKey(a, b) == <<a.noradId, b.noradId>>

\* the object pushed onto conjunctions
Conjunction(sat1, sat2, distance, t) ==
    [satellite1 |-> sat1,
     satellite2 |-> sat2,
     distance |-> distance,
     time |-> t,
     risk |-> getRiskLevel(distance),
     probability |-> calculateCollisionProbability(distance)]

\* faulty variant of SortByDistance: the list is left in the order of the loop
LoopOrder(list) == list

RECURSIVE InsertByDistance(_, _)
InsertByDistance(sorted, c) ==
    IF sorted = <<>> THEN <<c>>
    ELSE IF c.distance < Head(sorted).distance THEN <<c>> \o sorted
    ELSE <<Head(sorted)>> \o InsertByDistance(Tail(sorted), c)

RECURSIVE SortByDistance(_)
\* array.sort((a, b) => a.distance - b.distance), a stable sort
SortByDistance(list) ==
    IF list = <<>> THEN <<>>
    ELSE InsertByDistance(SortByDistance(SubSeq(list, 1, Len(list) - 1)), list[Len(list)])

\* faulty variant of Slice: the last entry within maxResults is dropped
SliceShort(list, maxResults) == SubSeq(list, 1, Min(Len(list), maxResults) - 1)

\* array.slice(0, maxResults)
Slice(list, maxResults) == SubSeq(list, 1, Min(Len(list), maxResults))

RECURSIVE ConjunctionLoopStrict(_, _, _, _, _, _, _)
\* faulty variant of ConjunctionLoop: a pair is discarded from an altitude
\* difference of 50 km on
ConjunctionLoopStrict(satellites, t, threshold, i, j, conjunctions, checked) ==
    IF i > Len(satellites) THEN conjunctions
    ELSE IF j > Len(satellites)
    THEN ConjunctionLoopStrict(satellites, t, threshold, i + 1, i + 2, conjunctions, checked)
    ELSE LET pairKey == PairKey(satellites[i], satellites[j])
             altDiff == Abs(satellites[i].altitude - satellites[j].altitude)
             distance == calculateDistance(satellites[i], satellites[j], t)
         IN IF pairKey \in checked
            THEN ConjunctionLoopStrict(satellites, t, threshold, i, j + 1, conjunctions,
                                       checked)
            ELSE IF altDiff >= 50
            THEN ConjunctionLoopStrict(satellites, t, threshold, i, j + 1, conjunctions,
                                       checked \cup {pairKey})
            ELSE IF distance # Null /\ distance <= Km(threshold)
            THEN ConjunctionLoopStrict(satellites, t, threshold, i, j + 1,
                                       Append(conjunctions,
                                              Conjunction(satellites[i], satellites[j],
                                                          distance, t)),
                                       checked \cup {pairKey})
            ELSE ConjunctionLoopStrict(satellites, t, threshold, i, j + 1, conjunctions,
                                       checked \cup {pairKey})

RECURSIVE ConjunctionLoop(_, _, _, _, _, _, _)
\* the two nested for loops from the pair (i, j) on (indices from 1)
ConjunctionLoop(satellites, t, threshold, i, j, conjunctions, checked) ==
    IF i > Len(satellites) THEN conjunctions
    ELSE IF j > Len(satellites)
    THEN ConjunctionLoop(satellites, t, threshold, i + 1, i + 2, conjunctions, checked)
    ELSE LET pairKey == PairKey(satellites[i], satellites[j])
             altDiff == Abs(satellites[i].altitude - satellites[j].altitude)
             distance == calculateDistance(satellites[i], satellites[j], t)
         IN IF pairKey \in checked
            THEN ConjunctionLoop(satellites, t, threshold, i, j + 1, conjunctions, checked)
            ELSE IF altDiff > 50
            THEN ConjunctionLoop(satellites, t, threshold, i, j + 1, conjunctions,
                                 checked \cup {pairKey})
            ELSE IF distance # Null /\ distance <= Km(threshold)
            THEN ConjunctionLoop(satellites, t, threshold, i, j + 1,
                                 Append(conjunctions,
                                        Conjunction(satellites[i], satellites[j], distance, t)),
                                 checked \cup {pairKey})
            ELSE ConjunctionLoop(satellites, t, threshold, i, j + 1, conjunctions,
                                 checked \cup {pairKey})

findAllConjunctions(satellites, t, threshold, maxResults) ==
    Slice(SortByDistance(ConjunctionLoop(satellites, t, threshold, 1, 2, <<>>, {})),
          maxResults)

\* allSatellites.filter(...): not the target, and altitude within 100 km of it
Candidates(targetSat, allSatellites) ==
    SelectSeq(allSatellites,
              LAMBDA sat : /\ sat.noradId # targetSat.noradId
                           /\ Abs(sat.altitude - targetSat.altitude) < 100)

\* for (t = startTime; t <= endTime; t += stepMinutes * 60 * 1000)
SampleTimes(startTime, aheadMs) ==
    [k \in 1..((aheadMs \div StepMs) + 1) |-> startTime + (k - 1) * StepMs]

RECURSIVE MinimumScanAborting(_, _, _, _, _)
\* faulty variant of MinimumScan: the first instant without a distance ends
\* the scan of the pair
MinimumScanAborting(targetSat, candidate, times, k, min) ==
    IF k > Len(times) THEN min
    ELSE LET distance == calculateDistance(targetSat, candidate, times[k])
         IN IF distance = Null THEN min
            ELSE IF distance < min.distance
            THEN MinimumScanAborting(targetSat, candidate, times, k + 1,
                                     [distance |-> distance, time |-> times[k]])
            ELSE MinimumScanAborting(targetSat, candidate, times, k + 1, min)

RECURSIVE MinimumScan(_, _, _, _, _)
\* for (const time of times): the running minDistance and minDistanceTime
MinimumScan(targetSat, candidate, times, k, min) ==
    IF k > Len(times) THEN min
    ELSE LET distance == calculateDistance(targetSat, candidate, times[k])
         IN IF distance # Null /\ distance < min.distance
            THEN MinimumScan(targetSat, candidate, times, k + 1,
                             [distance |-> distance, time |-> times[k]])
            ELSE MinimumScan(targetSat, candidate, times, k + 1, min)

\* the object pushed onto approaches
Approach(targetSat, candidate, min) ==
    [satellite1 |-> targetSat,
     satellite2 |-> candidate,
     distance |-> min.distance,
     time |-> min.time,
     risk |-> getRiskLevel(min.distance)]

RECURSIVE ApproachLoop(_, _, _, _, _, _)
\* for (const candidate of candidates)
ApproachLoop(targetSat, candidates, times, threshold, c, approaches) ==
    IF c > Len(candidates) THEN approaches
    ELSE LET min == MinimumScan(targetSat, candidates[c], times, 1,
                                [distance |-> Infinity, time |-> Null])
         IN IF min.distance <= Km(threshold)
            THEN ApproachLoop(targetSat, candidates, times, threshold, c + 1,
                              Append(approaches, Approach(targetSat, candidates[c], min)))
            ELSE ApproachLoop(targetSat, candidates, times, threshold, c + 1, approaches)

findCloseApproaches(targetSat, allSatellites, startTime, aheadMs, threshold, maxResults) ==
    Slice(SortByDistance(ApproachLoop(targetSat, Candidates(targetSat, allSatellites),
                                      SampleTimes(startTime, aheadMs), threshold, 1, <<>>)),
          maxResults)

-----------------------------------------------------------------------------
(* Calls of the conjunction search *)

NoCall == [fn |-> "none"]

\* results = findAllConjunctions(sampledSatellites, { time, threshold, maxResults })
CallFindAllConjunctions ==
    /\ cpc = "idle"
    /\ \E ids \in IdLists(DOMAIN catalog, MaxSats), threshold \in Thresholds,
          maxResults \in MaxResultsValues :
        /\ call' = [fn |-> "findAllConjunctions", satellites |-> SatList(ids), time |-> 0,
                    threshold |-> threshold, maxResults |-> maxResults]
        /\ result' = findAllConjunctions(SatList(ids), 0, threshold, maxResults)
    /\ cpc' = "returned"
    /\ UNCHANGED <<catalog, passVars, upVars, locVars, wsVars, ntfVars>>

\* results = findCloseApproaches(selectedSatellite, filteredSatellites, { ... })
CallFindCloseApproaches ==
    /\ cpc = "idle"
    /\ \E target \in DOMAIN catalog,
          ids \in IdLists(DOMAIN catalog, Cardinality(DOMAIN catalog)),
          steps \in 0..MaxAheadSteps, threshold \in Thresholds,
          maxResults \in MaxResultsValues :
        /\ \A k1, k2 \in DOMAIN ids : ids[k1] = ids[k2] => k1 = k2
        /\ Instants(steps) \subseteq DOMAIN catalog[target].satrec
        /\ call' = [fn |-> "findCloseApproaches", targetSat |-> catalog[target],
                    satellites |-> SatList(ids), startTime |-> 0,
                    aheadMs |-> steps * StepMs,
                    threshold |-> threshold, maxResults |-> maxResults]
        /\ result' = findCloseApproaches(catalog[target], SatList(ids), 0, steps * StepMs,
                                         threshold, maxResults)
    /\ cpc' = "returned"
    /\ UNCHANGED <<catalog, passVars, upVars, locVars, wsVars, ntfVars>>

ConjIdle ==
    /\ call = NoCall
    /\ result = <<>>
    /\ cpc = "idle"

\* the records findAllConjunctions is given: one position each, at the reference time
ConjInit ==
    /\ catalog \in Catalogs(Altitudes, Instants(0), ConjPositions)
    /\ ConjIdle

\* stored altitudes of the close-approach scenario (km): differences 0 and 100
ApproachAltitudes == {400, 500}

\* positions of the close-approach scenario: satellite 1 stays at the origin,
\* satellite 2 is on the line at these distances from it
NearPositions == {NoPos, 0}

FarPositions == {NoPos, 999, 5000, 25000, 26000}

\* the records findCloseApproaches is given: a position at each sampled instant
ApproachInit ==
    /\ catalog \in {c \in [NoradIds -> Records(NoradIds, ApproachAltitudes,
                                               Instants(MaxAheadSteps),
                                               NearPositions \cup FarPositions)] :
                      /\ \A id \in NoradIds : c[id].noradId = id
                      /\ \A t \in Instants(MaxAheadSteps) :
                            /\ c[1].satrec[t] \in NearPositions
                            /\ c[2].satrec[t] \in FarPositions}
    /\ ConjIdle

\* the noradIds of the ranking scenario
RankIds == {1, 2, 3}

RankAltitudes == {400}

\* positions of the ranking scenario: satellite 1 stays at the origin,
\* satellites 2 and 3 are each at one of these distances from it
RankPositions == {999, 5000}

\* three records at comparable altitudes, so that several pairs qualify at once
RankInit ==
    /\ catalog \in {c \in [RankIds -> Records(RankIds, RankAltitudes,
                                              Instants(MaxAheadSteps),
                                              {0} \cup RankPositions)] :
                      /\ \A id \in RankIds : c[id].noradId = id
                      /\ \A t \in Instants(MaxAheadSteps) :
                            /\ c[1].satrec[t] = 0
                            /\ \A id \in RankIds \ {1} : c[id].satrec[t] \in RankPositions}
    /\ ConjIdle

-----------------------------------------------------------------------------
(* FlyoverPredictions.jsx: manual entry of the observer location *)

\* userLocation: null (stores/useStore.js)
NullLocation == [null |-> TRUE]

\* parseFloat gave NaN: below every number a field text of the model denotes
NaN == 0 - 10 ^ 6

isNaN(x) == x = NaN

DigitChars == <<"0", "1", "2", "3", "4", "5", "6", "7", "8", "9">>

IsDigit(c) == \E d \in DOMAIN DigitChars : DigitChars[d] = c

DigitValue(c) == (CHOOSE d \in DOMAIN DigitChars : DigitChars[d] = c) - 1

RECURSIVE DigitPrefix(_)
\* the longest prefix of the text that is made of digits
DigitPrefix(text) ==
    IF text = <<>> \/ ~IsDigit(Head(text)) THEN <<>>
    ELSE <<Head(text)>> \o DigitPrefix(Tail(text))

RECURSIVE DecimalValue(_, _)
DecimalValue(digits, acc) ==
    IF digits = <<>> THEN acc
    ELSE DecimalValue(Tail(digits), 10 * acc + DigitValue(Head(digits)))

\* parseFloat on a text of signs, digits and other characters: the number
\* denoted by the longest prefix that is a number, NaN when there is none;
\* whatever follows that prefix is ignored
parseFloat(text) ==
    LET negative == text # <<>> /\ Head(text) = "-"
        digits == DigitPrefix(IF negative THEN Tail(text) ELSE text)
    IN IF digits = <<>> THEN NaN
       ELSE IF negative THEN 0 - DecimalValue(digits, 0)
       ELSE DecimalValue(digits, 0)

\* the texts typed into a field
FieldTexts ==
    {<<>>, <<"9">>, <<"9", "9">>, <<"9", "9", "9">>,
     <<"-", "9">>, <<"-", "9", "9">>, <<"-", "9", "9", "9">>,
     <<"x">>, <<"9", "x">>, <<"-">>}

\* onChange of the Lat field: setLocationInput(prev => ({ ...prev, lat: e.target.value }))
ChangeLat ==
    /\ \E text \in FieldTexts :
        /\ text # locationInput.lat
        /\ locationInput' = [locationInput EXCEPT !.lat = text]
    /\ UNCHANGED <<userLocation, passVars, conjVars, upVars, wsVars, ntfVars>>

\* onChange of the Lng field
ChangeLng ==
    /\ \E text \in FieldTexts :
        /\ text # locationInput.lng
        /\ locationInput' = [locationInput EXCEPT !.lng = text]
    /\ UNCHANGED <<userLocation, passVars, conjVars, upVars, wsVars, ntfVars>>

\* the test of applyManualLocation that leads to the alert and the return
Rejected(lat, lng) ==
    isNaN(lat) \/ isNaN(lng) \/ lat < 0 - 90 \/ lat > 90 \/ lng < 0 - 180 \/ lng > 180

\* onClick of the button next to the fields
applyManualLocation ==
    /\ LET lat == parseFloat(locationInput.lat)
           lng == parseFloat(locationInput.lng)
       IN IF Rejected(lat, lng)
          THEN UNCHANGED userLocation
          ELSE userLocation' = [latitude |-> lat, longitude |-> lng, altitude |-> 0]
    /\ UNCHANGED <<locationInput, passVars, conjVars, upVars, wsVars, ntfVars>>

\* the component is mounted: empty fields, no location in the store
LocationInit ==
    /\ locationInput = [lat |-> <<>>, lng |-> <<>>]
    /\ userLocation = NullLocation

\* a location has been stored before; the fields are not used
LocationSet ==
    /\ locationInput = [lat |-> <<>>, lng |-> <<>>]
    /\ userLocation = [latitude |-> 9, longitude |-> 9, altitude |-> 0]

-----------------------------------------------------------------------------
(* getUpcomingPasses (frontend/src/services/i18n.js) *)

\* 24 hours in the source; here the horizon is MaxSteps sampling steps
PREDICTION_WINDOW == MaxSteps * TIME_STEP

\* the orbits of the batch scenario: visible for 90 s from the instant 0, or
\* from two steps later; failing because propagate throws at every instant, or
\* because it gives no position at any instant
BatchOrbits ==
    {[kind |-> "window", from |-> 0, len |-> LongWindow],
     [kind |-> "window", from |-> 2 * TIME_STEP, len |-> LongWindow],
     [kind |-> "broken"],
     [kind |-> "decayed"]}

\* the lists of at most MaxSats satellites; the k-th has noradId k
BatchLists ==
    UNION {{[k \in 1..n |-> orbits[k] @@ [noradId |-> k]] : orbits \in [1..n -> BatchOrbits]} :
              n \in 0..MaxSats}

\* limit: FlyoverPredictions passes 30; 2 makes the truncation cut
Limits == {2, 30}

\* faulty variant of MergePasses: the passes replace what was collected
ReplacePasses(collected, found) == found

\* allPasses.push(...passes)
MergePasses(collected, found) == collected \o found

\* faulty variant of SortByStartTime: the list is left in the order of the loop
BatchOrder(list) == list

RECURSIVE InsertByStartTime(_, _)
InsertByStartTime(sorted, p) ==
    IF sorted = <<>> THEN <<p>>
    ELSE IF p.startTime < Head(sorted).startTime THEN <<p>> \o sorted
    ELSE <<Head(sorted)>> \o InsertByStartTime(Tail(sorted), p)

RECURSIVE SortByStartTime(_)
\* allPasses.sort((a, b) => a.startTime - b.startTime), a stable sort
SortByStartTime(list) ==
    IF list = <<>> THEN <<>>
    ELSE InsertByStartTime(SortByStartTime(SubSeq(list, 1, Len(list) - 1)), list[Len(list)])

\* the effect of FlyoverPredictions runs (userLocation is set):
\* getUpcomingPasses(satsToCheck, userLocation, 30) is entered, allPasses = []
CallGetUpcomingPasses ==
    /\ upc \in {"ready", "returned"}
    /\ userLocation # NullLocation
    /\ observerArg' = userLocation
    /\ allPasses' = <<>>
    /\ satIndex' = 1
    /\ computed' = <<>>
    /\ previous' = IF upc = "returned" THEN <<upResult>> ELSE previous
    /\ upc' = "loop"
    /\ UNCHANGED <<satellitesArg, limitArg, upResult, now, passVars, conjVars, locVars, wsVars, ntfVars>>

\* for (const sat of satellites): calculatePasses(sat, observerGd, new Date(),
\* PREDICTION_WINDOW) is entered; new Date() reads the clock, which may have advanced
EnterCalculatePasses ==
    /\ upc = "loop"
    /\ ppc = "idle"
    /\ satIndex <= Len(satellitesArg)
    /\ \E tick \in {0, Granule} :
        /\ now + tick <= MaxClock * Granule
        /\ now' = now + tick
    /\ sky' = satellitesArg[satIndex]
    /\ startArg' = now'
    /\ durationArg' = PREDICTION_WINDOW
    /\ time' = now'
    /\ inPass' = FALSE
    /\ currentPass' = NullPass
    /\ passes' = <<>>
    /\ sampled' = <<>>
    /\ ppc' = "scan"
    /\ UNCHANGED <<satellitesArg, observerArg, limitArg, satIndex, allPasses, upResult, upc,
                   computed, previous, conjVars, locVars, wsVars, ntfVars>>

\* calculatePasses returned: allPasses.push(...passes).  No statement of
\* calculatePasses outside its own try block can throw, so the catch of this
\* loop is never entered.
PushPasses ==
    /\ upc = "loop"
    /\ ppc = "done"
    /\ allPasses' = MergePasses(allPasses, passes)
    /\ computed' = Append(computed, passes)
    /\ satIndex' = satIndex + 1
    /\ ppc' = "idle"
    /\ UNCHANGED <<sky, startArg, durationArg, time, inPass, currentPass, passes, sampled,
                   satellitesArg, observerArg, limitArg, upResult, upc, now, previous,
                   conjVars, locVars, wsVars, ntfVars>>

\* the loop is over: allPasses.sort(...); return allPasses.slice(0, limit)
ReturnUpcoming ==
    /\ upc = "loop"
    /\ ppc = "idle"
    /\ satIndex > Len(satellitesArg)
    /\ allPasses' = SortByStartTime(allPasses)
    /\ upResult' = Slice(allPasses', limitArg)
    /\ upc' = "returned"
    /\ UNCHANGED <<satellitesArg, observerArg, limitArg, satIndex, now, computed, previous,
                   passVars, conjVars, locVars, wsVars, ntfVars>>

\* getUpcomingPasses is not used
UpIdle ==
    /\ satellitesArg = <<>>
    /\ observerArg = NullLocation
    /\ limitArg = 0
    /\ satIndex = 0
    /\ allPasses = <<>>
    /\ upResult = <<>>
    /\ upc = "idle"
    /\ now = 0
    /\ computed = <<>>
    /\ previous = <<>>

\* before the first call: the caller's satellites and limit are fixed
UpReady(lists, limits) ==
    /\ satellitesArg \in lists
    /\ observerArg = NullLocation
    /\ limitArg \in limits
    /\ satIndex = 0
    /\ allPasses = <<>>
    /\ upResult = <<>>
    /\ upc = "ready"
    /\ now = 0
    /\ computed = <<>>
    /\ previous = <<>>

-----------------------------------------------------------------------------
(* The helpers applied on their own *)

\* faulty variant of getPassQuality: the limits belong to the class below
getPassQualityAbove(maxElevation) ==
    IF maxElevation > 70 THEN "excellent"
    ELSE IF maxElevation > 45 THEN "good"
    ELSE IF maxElevation > 25 THEN "fair"
    ELSE "poor"

\* i18n.js, getPassQuality(maxElevation)
getPassQuality(maxElevation) ==
    IF maxElevation >= 70 THEN "excellent"
    ELSE IF maxElevation >= 45 THEN "good"
    ELSE IF maxElevation >= 25 THEN "fair"
    ELSE "poor"

\* maximum elevations (degrees) around the limits of the classes
QualityElevations == {0 - 5, 0, 10, 24, 25, 26, 44, 45, 46, 69, 70, 71, 90}

\* distances (metres) inside the bands and around their limits
BandDistances ==
    {0, 10, 20, 21, 500, 999, 1000, 1001, 3000, 4999, 5000, 5001, 7500, 9999,
     10000, 10001, 20000, 24999, 25000, 30000}

\* const quality = getPassQuality(pass.maxElevation)
CallGetPassQuality ==
    /\ cpc = "idle"
    /\ \E maxElevation \in QualityElevations :
        /\ call' = [fn |-> "getPassQuality", maxElevation |-> maxElevation]
        /\ result' = <<getPassQuality(maxElevation)>>
    /\ cpc' = "returned"
    /\ UNCHANGED <<catalog, passVars, upVars, locVars, wsVars, ntfVars>>

\* calculateCollisionProbability applied to the distances of two pairs
CallCalculateCollisionProbability ==
    /\ cpc = "idle"
    /\ \E d1, d2 \in BandDistances :
        /\ call' = [fn |-> "calculateCollisionProbability", d1 |-> d1, d2 |-> d2]
        /\ result' = <<calculateCollisionProbability(d1), calculateCollisionProbability(d2)>>
    /\ cpc' = "returned"
    /\ UNCHANGED <<catalog, passVars, upVars, locVars, wsVars, ntfVars>>

-----------------------------------------------------------------------------
(* useWebSocket (hooks/useWebSocket.js)                                    *)
(*                                                                         *)
(* A socket is the WebSocket object with the handlers connect() gave it;   *)
(* the handlers read the wsEnabled of the render whose connect() created   *)
(* the socket, kept in the field wsEnabled of the socket.  Sockets the     *)
(* hook no longer references but whose events are still to come are kept   *)
(* in the bag `orphans`.  Every reconnect timer calls the connect() of the *)
(* closure that scheduled it, which was created with wsEnabled true, since *)
(* onclose schedules a timer only then.                                    *)

MAX_RECONNECT_ATTEMPTS == 10

\* how many times the user switches wsEnabled
MaxSwitches == 2

NullSocket == [null |-> TRUE]

Open(s) == s # NullSocket /\ s.readyState = "OPEN"

\* the socket still has events to deliver
Live(s) == s # NullSocket /\ s.readyState \in {"CONNECTING", "OPEN", "CLOSING"}

\* the refs and the state of the hook before the first effect, with the
\* history fields: disconnected (disconnect() ran and the effect has not
\* called connect() since), openedSince (a socket was created since the last
\* disconnect()), scheduledRun (reconnects scheduled since the last successful
\* open), last (the handler that ran last)
HookInit ==
    [wsRef |-> NullSocket, orphans |-> EmptyBag, reconnectAttempts |-> 0,
     pingIntervalRef |-> FALSE, reconnectTimeoutRef |-> FALSE, timers |-> 0,
     isConnected |-> FALSE, error |-> "null",
     disconnected |-> FALSE, openedSince |-> FALSE, scheduledRun |-> 0, last |-> "none"]

\* connect(): return if the socket is open, else wsRef.current = new WebSocket(WS_URL)
connect(w, enabled) ==
    IF Open(w.wsRef)
      THEN [w EXCEPT !.last = "connect"]
      ELSE [w EXCEPT !.wsRef = [readyState |-> "CONNECTING", wsEnabled |-> enabled],
                     !.orphans = IF Live(w.wsRef) THEN @ (+) SetToBag({w.wsRef}) ELSE @,
                     !.openedSince = TRUE,
                     !.last = "connect"]

\* disconnect(): clear the reconnect timeout the ref holds and the ping
\* interval, close the socket, forget it; its close event is still to come
disconnect(w) ==
    [w EXCEPT !.timers = IF w.reconnectTimeoutRef THEN @ - 1 ELSE @,
              !.reconnectTimeoutRef = FALSE,
              !.pingIntervalRef = FALSE,
              !.orphans = IF w.wsRef # NullSocket /\ w.wsRef.readyState \in {"CONNECTING", "OPEN"}
                            THEN @ (+) SetToBag({[w.wsRef EXCEPT !.readyState = "CLOSING"]})
                            ELSE @,
              !.wsRef = NullSocket,
              !.isConnected = FALSE,
              !.disconnected = TRUE,
              !.openedSince = FALSE,
              !.last = "disconnect"]

\* ws.onopen
onopen(w) ==
    [w EXCEPT !.isConnected = TRUE, !.error = "null", !.reconnectAttempts = 0,
              !.pingIntervalRef = TRUE, !.scheduledRun = 0, !.last = "open"]

\* handleMessage, case 'connection': the server's greeting of an open socket
handleMessage(w) ==
    [w EXCEPT !.isConnected = TRUE, !.error = "null", !.reconnectAttempts = 0,
              !.scheduledRun = 0, !.last = "message"]

\* faulty variant of onclose: one more attempt is allowed
oncloseInclusive(w, s) ==
    LET closed == [w EXCEPT !.isConnected = FALSE, !.pingIntervalRef = FALSE, !.last = "close"]
    IN  IF s.wsEnabled /\ w.reconnectAttempts <= MAX_RECONNECT_ATTEMPTS
          THEN [closed EXCEPT !.reconnectAttempts = @ + 1,
                              !.reconnectTimeoutRef = TRUE,
                              !.timers = @ + 1,
                              !.scheduledRun = @ + 1]
          ELSE IF w.reconnectAttempts >= MAX_RECONNECT_ATTEMPTS
                 THEN [closed EXCEPT !.error = "Failed to connect after maximum attempts"]
                 ELSE closed

\* ws.onclose of socket s: the test reads the wsEnabled the handler captured
onclose(w, s) ==
    LET closed == [w EXCEPT !.isConnected = FALSE, !.pingIntervalRef = FALSE, !.last = "close"]
    IN  IF s.wsEnabled /\ w.reconnectAttempts < MAX_RECONNECT_ATTEMPTS
          THEN [closed EXCEPT !.reconnectAttempts = @ + 1,
                              !.reconnectTimeoutRef = TRUE,
                              !.timers = @ + 1,
                              !.scheduledRun = @ + 1]
          ELSE IF w.reconnectAttempts >= MAX_RECONNECT_ATTEMPTS
                 THEN [closed EXCEPT !.error = "Failed to connect after maximum attempts"]
                 ELSE closed

\* ws.onerror
onerror(w) == [w EXCEPT !.error = "WebSocket connection error", !.last = "error"]

\* the effect body: if (wsEnabled) connect() else disconnect()
effect(w, enabled) ==
    IF enabled THEN [connect(w, enabled) EXCEPT !.disconnected = FALSE] ELSE disconnect(w)

\* the component using the hook is mounted: the effect runs
Mount ==
    /\ hook = "unmounted"
    /\ hook' = "mounted"
    /\ ws' = effect(ws, wsEnabled)
    /\ UNCHANGED <<wsEnabled, switches, passVars, conjVars, upVars, locVars, ntfVars>>

\* the store's wsEnabled is switched: the cleanup of the effect, then the effect
SwitchWsEnabled ==
    /\ hook = "mounted"
    /\ switches < MaxSwitches
    /\ wsEnabled' = ~wsEnabled
    /\ switches' = switches + 1
    /\ ws' = effect(disconnect(ws), wsEnabled')
    /\ UNCHANGED <<hook, passVars, conjVars, upVars, locVars, ntfVars>>

\* the component is unmounted: the cleanup of the effect
Unmount ==
    /\ hook = "mounted"
    /\ hook' = "gone"
    /\ ws' = disconnect(ws)
    /\ UNCHANGED <<wsEnabled, switches, passVars, conjVars, upVars, locVars, ntfVars>>

\* the open event of a connecting socket, referenced or not
SocketOpens ==
    /\ \/ /\ ws.wsRef # NullSocket
          /\ ws.wsRef.readyState = "CONNECTING"
          /\ ws' = [onopen(ws) EXCEPT !.wsRef.readyState = "OPEN"]
       \/ \E s \in BagToSet(ws.orphans) :
            /\ s.readyState = "CONNECTING"
            /\ ws' = [onopen(ws) EXCEPT
                        !.orphans = (@ (-) SetToBag({s}))
                                      (+) SetToBag({[s EXCEPT !.readyState = "OPEN"]})]
    /\ UNCHANGED <<wsEnabled, hook, switches, passVars, conjVars, upVars, locVars, ntfVars>>

\* the close event of a socket: the server or the network ended it, or
\* disconnect() closed it
SocketCloses ==
    /\ \/ /\ Live(ws.wsRef)
          /\ ws' = [onclose(ws, ws.wsRef) EXCEPT !.wsRef.readyState = "CLOSED"]
       \/ \E s \in BagToSet(ws.orphans) :
            ws' = [onclose(ws, s) EXCEPT !.orphans = @ (-) SetToBag({s})]
    /\ UNCHANGED <<wsEnabled, hook, switches, passVars, conjVars, upVars, locVars, ntfVars>>

\* the error event of a socket
SocketError ==
    /\ Live(ws.wsRef) \/ BagToSet(ws.orphans) # {}
    /\ ws' = onerror(ws)
    /\ UNCHANGED <<wsEnabled, hook, switches, passVars, conjVars, upVars, locVars, ntfVars>>

\* a message of type 'connection' arrives on an open socket
SocketGreeting ==
    /\ Open(ws.wsRef) \/ \E s \in BagToSet(ws.orphans) : Open(s)
    /\ ws' = handleMessage(ws)
    /\ UNCHANGED <<wsEnabled, hook, switches, passVars, conjVars, upVars, locVars, ntfVars>>

\* a reconnect timer fires, the one the ref holds or an older one: connect()
\* of the closure that scheduled it
ReconnectTimerFires ==
    /\ ws.timers > 0
    /\ \E held \in BOOLEAN :
        /\ held => ws.reconnectTimeoutRef
        /\ ~held => ws.timers > (IF ws.reconnectTimeoutRef THEN 1 ELSE 0)
        /\ ws' = connect([ws EXCEPT !.timers = @ - 1,
                                    !.reconnectTimeoutRef = IF held THEN FALSE ELSE @],
                         TRUE)
    /\ UNCHANGED <<wsEnabled, hook, switches, passVars, conjVars, upVars, locVars, ntfVars>>

\* no component uses the hook
WsIdle ==
    /\ wsEnabled = FALSE
    /\ hook = "idle"
    /\ ws = HookInit
    /\ switches = 0

\* before the component is mounted, wsEnabled on or off in the store
WsInit ==
    /\ wsEnabled \in BOOLEAN
    /\ hook = "unmounted"
    /\ ws = HookInit
    /\ switches = 0

-----------------------------------------------------------------------------
(* NotificationService (unnamed/part_008)                                  *)
(*                                                                         *)
(* Date.now() is the clock dateNow, in ms; it advances between two calls   *)
(* or does not.  A timeout set for a trigger time may fire at any instant  *)
(* from that time on.                                                      *)

maxNotifications == 50

\* the latest instant of the clock
MaxDateNow == 2

\* the longest history the calls build
MaxSends == 2

\* how many timeouts scheduleNotification sets
MaxTimeouts == 2

\* ids of scheduled notifications (`flyover-${noradId}-${pass.start}`)
ScheduleIds == {"flyover-a", "flyover-b"}

\* titles of scheduled notifications
Titles == {"first", "second"}

ClockInstants == 0 .. MaxDateNow

Remove(f, k) == [x \in DOMAIN f \ {k} |-> f[x]]

\* send: id: Date.now(); notifications.unshift(notification); keep the first
\* maxNotifications
send(ns, title, t) ==
    LET list == <<[id |-> t, title |-> title, read |-> FALSE]>> \o ns
    IN  IF Len(list) > maxNotifications THEN SubSeq(list, 1, maxNotifications) ELSE list

\* notificationService.send(...) called by a component
Send ==
    /\ Len(notifications) < MaxSends
    /\ notifications' = send(notifications, "sent", dateNow)
    /\ lastCall' = [op |-> "send", id |-> dateNow, earlier |-> Null]
    /\ UNCHANGED <<scheduledNotifications, timeouts, timeoutCount, dateNow,
                   passVars, conjVars, upVars, locVars, wsVars>>

\* time passes
Tick ==
    /\ dateNow < MaxDateNow
    /\ dateNow' = dateNow + 1
    /\ UNCHANGED <<notifications, scheduledNotifications, timeouts, timeoutCount, lastCall,
                   passVars, conjVars, upVars, locVars, wsVars>>

\* cancelScheduled(id), on the map and on the pending timeouts
cancelScheduledMap(map, id) == IF id \in DOMAIN map THEN Remove(map, id) ELSE map

cancelScheduledTimeouts(map, pending, id) ==
    IF id \in DOMAIN map THEN Remove(pending, map[id].timeoutId) ELSE pending

\* scheduleNotification(id, title, options, triggerTime)
scheduleNotification ==
    /\ timeoutCount < MaxTimeouts
    /\ \E id \in ScheduleIds, title \in Titles, triggerTime \in ClockInstants :
        LET delay == triggerTime - dateNow
            earlier == IF id \in DOMAIN scheduledNotifications
                         THEN scheduledNotifications[id].timeoutId ELSE Null
            timeoutId == timeoutCount + 1
        IN  /\ lastCall' = [op |-> "scheduleNotification", id |-> id, earlier |-> earlier]
            /\ IF delay <= 0
                 THEN UNCHANGED <<scheduledNotifications, timeouts, timeoutCount>>
                 ELSE /\ timeouts' =
                           cancelScheduledTimeouts(scheduledNotifications, timeouts, id)
                             @@ (timeoutId :> [id |-> id, title |-> title,
                                               triggerTime |-> triggerTime])
                      /\ scheduledNotifications' =
                           (id :> [timeoutId |-> timeoutId, title |-> title,
                                   triggerTime |-> triggerTime])
                             @@ cancelScheduledMap(scheduledNotifications, id)
                      /\ timeoutCount' = timeoutCount + 1
    /\ UNCHANGED <<notifications, dateNow, passVars, conjVars, upVars, locVars, wsVars>>

\* cancelScheduled(id) called by a component
cancelScheduled ==
    /\ \E id \in ScheduleIds :
        /\ lastCall' = [op |-> "cancelScheduled", id |-> id, earlier |-> Null]
        /\ timeouts' = cancelScheduledTimeouts(scheduledNotifications, timeouts, id)
        /\ scheduledNotifications' = cancelScheduledMap(scheduledNotifications, id)
    /\ UNCHANGED <<notifications, timeoutCount, dateNow,
                   passVars, conjVars, upVars, locVars, wsVars>>

\* the callback of a timeout set by scheduleNotification: send, then delete(id)
TimeoutFires ==
    /\ Len(notifications) < MaxSends
    /\ \E timeoutId \in DOMAIN timeouts :
        LET t == timeouts[timeoutId]
        IN  /\ dateNow >= t.triggerTime
            /\ notifications' = send(notifications, t.title, dateNow)
            /\ scheduledNotifications' = Remove(scheduledNotifications, t.id)
            /\ timeouts' = Remove(timeouts, timeoutId)
            /\ lastCall' = [op |-> "timeout", id |-> t.id, earlier |-> timeoutId]
    /\ UNCHANGED <<timeoutCount, dateNow, passVars, conjVars, upVars, locVars, wsVars>>

\* notifications.find(n => n.id === id): the position of the first, or 0
FindById(ns, id) ==
    IF \E i \in DOMAIN ns : ns[i].id = id
      THEN CHOOSE i \in DOMAIN ns : ns[i].id = id /\ \A j \in 1 .. i - 1 : ns[j].id # id
      ELSE 0

\* markAsRead(id)
markAsRead ==
    /\ \E id \in ClockInstants :
        LET i == FindById(notifications, id)
        IN  /\ notifications' = IF i # 0 THEN [notifications EXCEPT ![i].read = TRUE]
                                         ELSE notifications
            /\ lastCall' = [op |-> "markAsRead", id |-> id, earlier |-> Null]
    /\ UNCHANGED <<scheduledNotifications, timeouts, timeoutCount, dateNow,
                   passVars, conjVars, upVars, locVars, wsVars>>

\* notifications.filter(n => n.id !== id)
RECURSIVE FilterOutId(_, _)
FilterOutId(ns, id) ==
    IF ns = <<>> THEN <<>>
    ELSE IF Head(ns).id # id THEN <<Head(ns)>> \o FilterOutId(Tail(ns), id)
    ELSE FilterOutId(Tail(ns), id)

\* deleteNotification(id)
deleteNotification ==
    /\ \E id \in ClockInstants :
        /\ notifications' = FilterOutId(notifications, id)
        /\ lastCall' = [op |-> "deleteNotification", id |-> id, earlier |-> Null]
    /\ UNCHANGED <<scheduledNotifications, timeouts, timeoutCount, dateNow,
                   passVars, conjVars, upVars, locVars, wsVars>>

\* markAllAsRead()
markAllAsRead ==
    /\ notifications' = [i \in DOMAIN notifications |-> [notifications[i] EXCEPT !.read = TRUE]]
    /\ lastCall' = [op |-> "markAllAsRead", id |-> Null, earlier |-> Null]
    /\ UNCHANGED <<scheduledNotifications, timeouts, timeoutCount, dateNow,
                   passVars, conjVars, upVars, locVars, wsVars>>

\* clearAll()
clearAll ==
    /\ notifications' = <<>>
    /\ lastCall' = [op |-> "clearAll", id |-> Null, earlier |-> Null]
    /\ UNCHANGED <<scheduledNotifications, timeouts, timeoutCount, dateNow,
                   passVars, conjVars, upVars, locVars, wsVars>>

\* the constructor: no history in localStorage, nothing scheduled
NtfInit ==
    /\ notifications = <<>>
    /\ scheduledNotifications = <<>>
    /\ timeouts = <<>>
    /\ timeoutCount = 0
    /\ dateNow = 0
    /\ lastCall = [op |-> "none", id |-> Null, earlier |-> Null]

\* the service is not used
NtfIdle == NtfInit

-----------------------------------------------------------------------------
(* Specifications *)

\* calculatePasses is entered; the conjunction search is not used
PassSpecInit ==
    /\ PassInit
    /\ catalog = <<>>
    /\ ConjIdle
    /\ UpIdle
    /\ LocationInit
    /\ WsIdle
    /\ NtfIdle

\* one call of calculatePasses
PassSpec == PassSpecInit /\ [][PassNext]_vars

\* one call of calculatePasses, run to its end: the loop is synchronous code
\* that nothing interrupts
PassFairSpec == PassSpecInit /\ [][PassNext]_vars /\ WF_vars(PassNext)

ConjNext ==
    \/ CallFindAllConjunctions
    \/ CallFindCloseApproaches

\* the records are loaded; calculatePasses is not running
ConjSpecInit ==
    /\ ConjInit \/ ApproachInit \/ RankInit
    /\ PassIdle
    /\ UpIdle
    /\ LocationInit
    /\ WsIdle
    /\ NtfIdle

\* one call of findAllConjunctions or of findCloseApproaches
ConjSpec == ConjSpecInit /\ [][ConjNext]_vars

UpcomingNext ==
    \/ CallGetUpcomingPasses
    \/ EnterCalculatePasses
    \/ PassNext
    \/ PushPasses
    \/ ReturnUpcoming

\* the observer location is set; the caller has its satellites and its limit
UpcomingSpecInit ==
    /\ PassIdle
    /\ catalog = <<>>
    /\ ConjIdle
    /\ UpReady(BatchLists, Limits)
    /\ LocationSet
    /\ WsIdle
    /\ NtfIdle

\* calls of getUpcomingPasses by the effect of FlyoverPredictions
UpcomingSpec == UpcomingSpecInit /\ [][UpcomingNext]_vars

LocationNext ==
    \/ ChangeLat
    \/ ChangeLng
    \/ applyManualLocation
    \/ CallGetUpcomingPasses
    \/ ReturnUpcoming

\* the panel is opened before any location is known; no satellite passes the
\* caller's filter
LocationSpecInit ==
    /\ PassIdle
    /\ catalog = <<>>
    /\ ConjIdle
    /\ UpReady({<<>>}, {30})
    /\ LocationInit
    /\ WsIdle
    /\ NtfIdle

\* manual entries of the location, each followed or not by the effect
LocationSpec == LocationSpecInit /\ [][LocationNext]_vars

HelperNext ==
    \/ CallGetPassQuality
    \/ CallCalculateCollisionProbability

HelperSpecInit ==
    /\ PassIdle
    /\ catalog = <<>>
    /\ ConjIdle
    /\ UpIdle
    /\ LocationInit
    /\ WsIdle
    /\ NtfIdle

\* one application of getPassQuality or of calculateCollisionProbability
HelperSpec == HelperSpecInit /\ [][HelperNext]_vars

WsNext ==
    \/ Mount
    \/ SwitchWsEnabled
    \/ Unmount
    \/ SocketOpens
    \/ SocketCloses
    \/ SocketError
    \/ SocketGreeting
    \/ ReconnectTimerFires

WsSpecInit ==
    /\ PassIdle
    /\ catalog = <<>>
    /\ ConjIdle
    /\ UpIdle
    /\ LocationInit
    /\ WsInit
    /\ NtfIdle

\* the life of one component using useWebSocket, and the events of its sockets
WsSpec == WsSpecInit /\ [][WsNext]_vars

NtfNext ==
    \/ Send
    \/ Tick
    \/ scheduleNotification
    \/ cancelScheduled
    \/ TimeoutFires
    \/ markAsRead
    \/ deleteNotification
    \/ markAllAsRead
    \/ clearAll

NtfSpecInit ==
    /\ PassIdle
    /\ catalog = <<>>
    /\ ConjIdle
    /\ UpIdle
    /\ LocationInit
    /\ WsIdle
    /\ NtfInit

\* calls of the notification service and the timeouts it sets
NtfSpec == NtfSpecInit /\ [][NtfNext]_vars

-----------------------------------------------------------------------------
(* Properties of calculatePasses *)

Returned == ppc = "done"

PassSet == {passes[i] : i \in DOMAIN passes}

PointSet(p) == {p.points[k] : k \in DOMAIN p.points}

\* a pass closed by the InPass -> Below branch carries endAzimuth; one closed
\* after the loop does not (the code sets only endTime and duration there)
ClosedByTransition(p) == "endAzimuth" \in DOMAIN p

FailedSample(s) == s.out.kind # "ok"

\* C1: every point of every returned pass has elevation >= the 10 degree
\* threshold and a time within [startTime, endTime] of its pass, whatever the
\* sampled elevations and propagation failures were.
PassPointsWithinPass ==
    \A p \in PassSet : \A pt \in PointSet(p) :
        /\ pt.elevation >= 10
        /\ p.startTime <= pt.time
        /\ pt.time <= p.endTime

\* C1 witness: a returned pass of at least two points, scanned with a
\* propagation failure while the pass was open
PassPointsWithinPassWitness ==
    /\ Returned
    /\ \E p \in PassSet :
        /\ Len(p.points) >= 2
        /\ \E k \in DOMAIN sampled :
            /\ FailedSample(sampled[k])
            /\ p.startTime < sampled[k].time
            /\ sampled[k].time < p.endTime

\* the visibility window lies inside the search horizon and ends at least one
\* sampling step before it, so that the scan sees the object set
WindowInsideHorizon ==
    /\ sky.kind = "window"
    /\ startArg <= sky.from
    /\ sky.from + sky.len + TIME_STEP <= EndTime

\* C2: with the 60 s step and the 60 s minimum duration, an object above the
\* threshold for a window of only 30 s yields zero passes wherever the window
\* falls relative to the sampling instants, and one above the threshold for
\* 90 s yields exactly one pass.
DurationFilterOnWindows ==
    (Returned /\ WindowInsideHorizon) =>
        /\ sky.len = ShortWindow => Len(passes) = 0
        /\ sky.len = LongWindow => Len(passes) = 1

AllSampledAbove ==
    \A k \in DOMAIN sampled :
        sampled[k].out.kind = "ok" /\ sampled[k].out.elevation >= MIN_ELEVATION

\* C3 (as claimed): an object at or above the threshold at every sampled
\* instant of the horizon yields zero passes.
NeverSetsYieldsNoPass ==
    (Returned /\ AllSampledAbove) => Len(passes) = 0

\* C3 (amended): an object at or above the threshold at every sampled instant
\* of a horizon with at least one sampled instant yields exactly one pass; it
\* starts at the first sampled instant and holds every sampled instant.
NeverSetsYieldsOnePass ==
    (Returned /\ AllSampledAbove /\ sampled # <<>>) =>
        /\ Len(passes) = 1
        /\ passes[1].startTime = startArg
        /\ Len(passes[1].points) = Len(sampled)

\* C3 witness: a scan of at least two instants, all at or above the threshold
NeverSetsWitness ==
    Returned /\ AllSampledAbove /\ Len(sampled) >= 2

\* C4 (as claimed): a pass closed by an InPass -> Below transition has
\* startTime < maxElevationTime < endTime; a pass closed because the horizon
\* ended has startTime <= maxElevationTime.
MaxElevationTimeStrictlyInside ==
    \A p \in PassSet :
        IF ClosedByTransition(p)
        THEN p.startTime < p.maxElevationTime /\ p.maxElevationTime < p.endTime
        ELSE p.startTime <= p.maxElevationTime

\* C4 (amended): a pass closed by an InPass -> Below transition has
\* startTime <= maxElevationTime < endTime (the maximum may be the first
\* sample); a pass closed because the horizon ended has
\* startTime <= maxElevationTime.
MaxElevationTimeInside ==
    \A p \in PassSet :
        IF ClosedByTransition(p)
        THEN p.startTime <= p.maxElevationTime /\ p.maxElevationTime < p.endTime
        ELSE p.startTime <= p.maxElevationTime

\* C4 witness: one call returns a pass closed by a transition, whose maximum
\* is after its start, and a pass closed at the end of the horizon
MaxElevationTimeWitness ==
    /\ Returned
    /\ \E p \in PassSet : ClosedByTransition(p) /\ p.startTime < p.maxElevationTime
    /\ \E p \in PassSet : ~ClosedByTransition(p)

\* C5: in every returned pass maxElevation is the maximum elevation over the
\* pass's points, and maxElevationTime and maxAzimuth are the time and the
\* azimuth of a point of the pass that has this elevation.
MaxElevationIsMaxOfPoints ==
    \A p \in PassSet :
        /\ \A pt \in PointSet(p) : pt.elevation <= p.maxElevation
        /\ \E pt \in PointSet(p) :
            /\ pt.elevation = p.maxElevation
            /\ pt.time = p.maxElevationTime
            /\ pt.azimuth = p.maxAzimuth

\* C5 witness: a returned pass whose maximum is not its first point and whose
\* points differ in azimuth
MaxElevationWitness ==
    /\ Returned
    /\ \E p \in PassSet :
        /\ p.maxElevationTime > p.startTime
        /\ p.maxAzimuth # p.startAzimuth

\* C6: if the horizon ends while a pass is open, the pass is closed with
\* endTime = startTime argument + duration argument, for every duration (a
\* multiple of the 60 s step or not), and it is accepted iff its duration,
\* measured to that boundary, is >= 60 s.
HorizonCloseAtBoundary ==
    (Returned /\ inPass) =>
        /\ currentPass.endTime = EndTime
        /\ (Len(passes) > 0 /\ passes[Len(passes)] = currentPass)
              <=> (EndTime - currentPass.startTime >= 60 * 1000)

\* the instants sampled so far at which propagation succeeded, in order
OkSamples == SelectSeq(sampled, LAMBDA s : s.out.kind = "ok")

Visible(s) == s.out.elevation >= 10

\* the first instants of the maximal runs of consecutive successfully sampled
\* instants with elevation >= threshold
RunStarts ==
    {OkSamples[i].time : i \in {j \in DOMAIN OkSamples :
                                  /\ Visible(OkSamples[j])
                                  /\ j = 1 \/ ~Visible(OkSamples[j - 1])}}

\* the instants of the run that begins at the i-th successful sample
RunInstants(i) ==
    {OkSamples[j].time : j \in {m \in i..Len(OkSamples) :
                                  \A n \in i..m : Visible(OkSamples[n])}}

\* C21: the passes returned by calculatePasses are, in chronological order,
\* the maximal runs of consecutive successfully sampled instants with
\* elevation >= threshold: there are as many passes as runs, pass k starts at
\* the first instant of the k-th run and its points are the instants of that
\* run, and each pass ends no later than the next one starts.
PassesAreRuns ==
    Returned =>
        /\ Len(passes) = Cardinality(RunStarts)
        /\ \A k \in DOMAIN passes :
              /\ passes[k].startTime \in RunStarts
              /\ Cardinality({t \in RunStarts : t < passes[k].startTime}) = k - 1
              /\ \E i \in DOMAIN OkSamples :
                    /\ OkSamples[i].time = passes[k].startTime
                    /\ {pt.time : pt \in PointSet(passes[k])} = RunInstants(i)
              /\ k < Len(passes) => passes[k].endTime <= passes[k + 1].startTime

\* C21 witness: a pass closed by a transition is returned whose run holds an
\* instant at which propagation failed
PassesAreRunsWitness ==
    /\ Returned
    /\ Len(passes) = 1
    /\ ClosedByTransition(passes[1])
    /\ \E s \in {sampled[i] : i \in DOMAIN sampled} :
        /\ FailedSample(s)
        /\ passes[1].startTime < s.time
        /\ s.time < passes[1].points[Len(passes[1].points)].time

\* C22: a sampled instant at which propagation fails (no position, or an
\* exception) changes nothing but the scan time: inPass, the open pass with
\* its points, and the passes collected so far stay as they are, and the scan
\* goes on at the next step.
FailureSkipsInstantOnly ==
    [][(/\ Len(sampled') = Len(sampled) + 1
        /\ FailedSample(sampled'[Len(sampled')]))
          => /\ inPass' = inPass
             /\ currentPass' = currentPass
             /\ passes' = passes
             /\ time' = time + TIME_STEP
             /\ ppc' = "scan"]_vars

\* C22 witness: propagation has just failed at an instant inside an open pass
\* that already holds a point
FailureInPassWitness ==
    /\ ppc = "scan"
    /\ inPass
    /\ Len(currentPass.points) > 0
    /\ Len(sampled) > 0
    /\ FailedSample(sampled[Len(sampled)])

\* C25: every pass returned by calculatePasses, closed by a transition or at
\* the end of the horizon, has endTime, endAzimuth and endDirection recorded
\* and a duration of (endTime - startTime) in seconds.
EndFieldsRecorded ==
    Returned =>
        \A p \in PassSet :
            /\ {"endTime", "endAzimuth", "endDirection", "duration"} \subseteq DOMAIN p
            /\ p.duration * 1000 = p.endTime - p.startTime

\* C26: on every path through the loop body (a look angle, no position, an
\* exception) the scan time advances by exactly one step, the number of
\* instants sampled never exceeds the number of steps that fit the horizon,
\* and calculatePasses returns.
ScanTerminates ==
    /\ [][Len(sampled') > Len(sampled) => time' = time + TIME_STEP]_vars
    /\ [](Len(sampled) * TIME_STEP < durationArg + TIME_STEP)
    /\ <>Returned

\* C26 witness: calculatePasses has returned after a scan of the longest
\* horizon in which one instant gave no position and another an exception
ScanTerminatesWitness ==
    /\ Returned
    /\ Len(sampled) = MaxSteps
    /\ \E i, j \in DOMAIN sampled :
        /\ sampled[i].out.kind = "nopos"
        /\ sampled[j].out.kind = "throw"

-----------------------------------------------------------------------------
(* Properties of findAllConjunctions and findCloseApproaches *)

ConjReturned == cpc = "returned"

FindAllReturned == ConjReturned /\ call.fn = "findAllConjunctions"

UnorderedPair(c) == {c.satellite1.noradId, c.satellite2.noradId}

\* C7: whatever the input list (a noradId may occur more than once, in any
\* order), the result of findAllConjunctions never holds two conjunctions with
\* the same unordered pair of noradIds.
NoDuplicatePairs ==
    FindAllReturned =>
        \A k1, k2 \in DOMAIN result :
            k1 # k2 => UnorderedPair(result[k1]) # UnorderedPair(result[k2])

DistinctIds(satellites) ==
    \A k1, k2 \in DOMAIN satellites :
        satellites[k1].noradId = satellites[k2].noradId => k1 = k2

\* C8: every conjunction returned by findAllConjunctions has satellite1.noradId
\* strictly less than satellite2.noradId, whatever the order of the input list
\* (stated for the lists in which no noradId occurs twice).
PairsCanonicalized ==
    (FindAllReturned /\ DistinctIds(call.satellites)) =>
        \A k \in DOMAIN result :
            result[k].satellite1.noradId < result[k].satellite2.noradId

\* C9: in every conjunction returned by findAllConjunctions and by
\* findCloseApproaches the risk is exactly the band of the reported distance
\* (metres here): critical below 1 km, high in [1, 5) km, moderate in
\* [5, 10) km, low in [10, 25) km, safe otherwise.
RiskIsBandOfDistance ==
    ConjReturned =>
        \A k \in DOMAIN result :
            LET d == result[k].distance
                risk == result[k].risk
            IN /\ risk = "critical" <=> d < 1000
               /\ risk = "high" <=> (1000 <= d /\ d < 5000)
               /\ risk = "moderate" <=> (5000 <= d /\ d < 10000)
               /\ risk = "low" <=> (10000 <= d /\ d < 25000)
               /\ risk = "safe" <=> 25000 <= d

\* C9 witness: a call returns two conjunctions of different risk, one of them
\* at a band limit
RiskBandWitness ==
    /\ ConjReturned
    /\ \E k1, k2 \in DOMAIN result :
        /\ result[k1].risk # result[k2].risk
        /\ result[k1].distance \in {1000, 5000, 10000, 25000}

\* C10: with the default threshold of 25 km no conjunction returned by
\* findAllConjunctions or findCloseApproaches has risk safe, whatever distance
\* the pair has.
NoSafeAtDefaultThreshold ==
    (ConjReturned /\ call.threshold = LOW) =>
        \A k \in DOMAIN result : result[k].risk # "safe"

\* the index pairs (i, j), i < j, of a list of records
IndexPairs(satellites) ==
    {ij \in (DOMAIN satellites) \X (DOMAIN satellites) : ij[1] < ij[2]}

\* the separation of the records of an index pair at the reference time t
PairDistance(satellites, ij, t) ==
    calculateDistance(satellites[ij[1]], satellites[ij[2]], t)

\* a conjunction of the two records of the index pair, with risk critical, is
\* in the result
ReportedCritical(satellites, ij) ==
    \E k \in DOMAIN result :
        /\ result[k].satellite1 = satellites[ij[1]]
        /\ result[k].satellite2 = satellites[ij[2]]
        /\ result[k].risk = "critical"

\* C11 as stated: any two records of the list less than 1 km apart at the
\* reference time are in the result of findAllConjunctions with risk critical
\* whenever threshold >= 1 and fewer than maxResults pairs are closer, whatever
\* the stored altitudes of the two records are.
ClosePairReportedWhateverAltitude ==
    (FindAllReturned /\ call.threshold >= 1) =>
        \A ij \in IndexPairs(call.satellites) :
            LET d == PairDistance(call.satellites, ij, call.time)
                closer == {o \in IndexPairs(call.satellites) :
                             /\ PairDistance(call.satellites, o, call.time) # Null
                             /\ PairDistance(call.satellites, o, call.time) < d}
            IN (d # Null /\ d < 1000 /\ Cardinality(closer) < call.maxResults)
                  => ReportedCritical(call.satellites, ij)

\* C11: any two records of the list less than 1 km apart at the reference
\* time, whose stored altitudes differ by at most 50 km, are in the result of
\* findAllConjunctions with risk critical whenever threshold >= 1 and fewer
\* than maxResults other pairs are at least as close.
ClosePairReported ==
    (FindAllReturned /\ call.threshold >= 1) =>
        \A ij \in IndexPairs(call.satellites) :
            LET d == PairDistance(call.satellites, ij, call.time)
                altDiff == Abs(call.satellites[ij[1]].altitude
                               - call.satellites[ij[2]].altitude)
                asClose == {o \in IndexPairs(call.satellites) \ {ij} :
                              /\ PairDistance(call.satellites, o, call.time) # Null
                              /\ PairDistance(call.satellites, o, call.time) <= d}
            IN (d # Null /\ d < 1000 /\ altDiff <= 50
                   /\ Cardinality(asClose) < call.maxResults)
                  => ReportedCritical(call.satellites, ij)

\* C11 witness: findAllConjunctions reports as critical a pair of different
\* records 999 m apart whose stored altitudes differ by exactly 50 km, after
\* a closer pair
ClosePairWitness ==
    /\ FindAllReturned
    /\ Len(result) > 1
    /\ result[1].distance < 999
    /\ \E ij \in IndexPairs(call.satellites) :
        /\ PairDistance(call.satellites, ij, call.time) = 999
        /\ Abs(call.satellites[ij[1]].altitude - call.satellites[ij[2]].altitude) = 50
        /\ ReportedCritical(call.satellites, ij)

FindCloseReturned == ConjReturned /\ call.fn = "findCloseApproaches"

SortedByDistance(list) ==
    \A k \in 1..(Len(list) - 1) : list[k].distance <= list[k + 1].distance

\* the index pairs of the list that qualify for findAllConjunctions: stored
\* altitudes within 50 km, both positions known, separation within the threshold
QualifyingPairs ==
    {ij \in IndexPairs(call.satellites) :
        /\ Abs(call.satellites[ij[1]].altitude - call.satellites[ij[2]].altitude) <= 50
        /\ PairDistance(call.satellites, ij, call.time) # Null
        /\ PairDistance(call.satellites, ij, call.time) <= call.threshold * 1000}

\* the instants findCloseApproaches samples
SampledInstants ==
    {call.startTime + k * StepMs : k \in 0..(call.aheadMs \div StepMs)}

\* the least separation of the target and sat over the sampled instants at
\* which both have a position, Infinity when there is none
LeastSeparation(sat) ==
    LET ds == {calculateDistance(call.targetSat, sat, t) : t \in SampledInstants} \ {Null}
    IN IF ds = {} THEN Infinity ELSE CHOOSE d \in ds : \A e \in ds : d <= e

\* the list positions that qualify for findCloseApproaches: not the target,
\* stored altitude within 100 km of it, least separation within the threshold
QualifyingCandidates ==
    {c \in DOMAIN call.satellites :
        /\ call.satellites[c].noradId # call.targetSat.noradId
        /\ Abs(call.satellites[c].altitude - call.targetSat.altitude) < 100
        /\ LeastSeparation(call.satellites[c]) <= call.threshold * 1000}

\* C12: the list returned by findAllConjunctions and by findCloseApproaches
\* is sorted in non-decreasing order of distance, has at most maxResults
\* entries, each entry is a qualifying pair with its distance, and a
\* qualifying pair is left out only when the list is full and holds no entry
\* with a greater distance than that pair.
ClosestPairsReturned ==
    /\ ConjReturned =>
          /\ SortedByDistance(result)
          /\ Len(result) <= call.maxResults
    /\ FindAllReturned =>
          /\ \A k \in DOMAIN result :
                \E ij \in QualifyingPairs :
                    /\ result[k].satellite1 = call.satellites[ij[1]]
                    /\ result[k].satellite2 = call.satellites[ij[2]]
                    /\ result[k].distance = PairDistance(call.satellites, ij, call.time)
          /\ \A ij \in QualifyingPairs :
                \/ \E k \in DOMAIN result :
                        /\ result[k].satellite1 = call.satellites[ij[1]]
                        /\ result[k].satellite2 = call.satellites[ij[2]]
                \/ /\ Len(result) = call.maxResults
                   /\ \A k \in DOMAIN result :
                        result[k].distance <= PairDistance(call.satellites, ij, call.time)
    /\ FindCloseReturned =>
          /\ \A k \in DOMAIN result :
                \E c \in QualifyingCandidates :
                    /\ result[k].satellite1 = call.targetSat
                    /\ result[k].satellite2 = call.satellites[c]
                    /\ result[k].distance = LeastSeparation(call.satellites[c])
          /\ \A c \in QualifyingCandidates :
                \/ \E k \in DOMAIN result : result[k].satellite2 = call.satellites[c]
                \/ /\ Len(result) = call.maxResults
                   /\ \A k \in DOMAIN result :
                        result[k].distance <= LeastSeparation(call.satellites[c])

\* C12 witness: findCloseApproaches has two qualifying candidates, may return
\* one, and returns the one that is later in the list because it comes closer
ClosestPairsWitness ==
    /\ FindCloseReturned
    /\ call.maxResults = 1
    /\ Len(result) = 1
    /\ \E c1, c2 \in QualifyingCandidates :
        /\ c1 < c2
        /\ result[1].satellite2 = call.satellites[c2]
        /\ LeastSeparation(call.satellites[c2]) < LeastSeparation(call.satellites[c1])

\* the records a call hands to calculateDistance
CallRecords ==
    {call.satellites[k] : k \in DOMAIN call.satellites}
        \cup (IF call.fn = "findCloseApproaches" THEN {call.targetSat} ELSE {})

\* the instants a call hands to calculateDistance
CallInstants ==
    IF call.fn = "findCloseApproaches" THEN SampledInstants ELSE {call.time}

\* C17: calculateDistance is symmetric: for all records A, B and every time T
\* of a call, calculateDistance(A, B, T) = calculateDistance(B, A, T), and
\* when either record has no position at T both orders give null.
DistanceSymmetric ==
    ConjReturned =>
        \A a, b \in CallRecords, t \in CallInstants :
            /\ calculateDistance(a, b, t) = calculateDistance(b, a, t)
            /\ (getPositionAtTime(a.satrec, t) = NoPos
                    \/ getPositionAtTime(b.satrec, t) = NoPos)
                  => /\ calculateDistance(a, b, t) = Null
                     /\ calculateDistance(b, a, t) = Null

\* C17 witness: findAllConjunctions is given, in both orders, two records of
\* which only one has a position, and reports none of these two pairs
DistanceSymmetricWitness ==
    /\ FindAllReturned
    /\ \E i, j \in DOMAIN call.satellites :
        /\ i < j
        /\ \E m \in DOMAIN call.satellites :
              /\ j < m
              /\ call.satellites[m] = call.satellites[i]
        /\ getPositionAtTime(call.satellites[i].satrec, call.time) # NoPos
        /\ getPositionAtTime(call.satellites[j].satrec, call.time) = NoPos
    /\ \A k \in DOMAIN result : result[k].satellite1 = result[k].satellite2

\* a conjunction of the two records of the index pair is in the result
Reported(satellites, ij) ==
    \E k \in DOMAIN result :
        /\ result[k].satellite1 = satellites[ij[1]]
        /\ result[k].satellite2 = satellites[ij[2]]

\* C23: when findAllConjunctions did not fill its maxResults entries (nothing
\* was cut), a pair of the list is reported if and only if its stored
\* altitudes differ by at most 50 km, both records have a position at the
\* reference time and the distance is <= threshold; so a pair whose altitudes
\* differ by more than 50 km is never reported, however close it is.
ReportedIffQualifying ==
    (FindAllReturned /\ Len(result) < call.maxResults) =>
        \A ij \in IndexPairs(call.satellites) :
            Reported(call.satellites, ij) <=> ij \in QualifyingPairs

\* C23 witness: findAllConjunctions reports a pair and leaves out a pair at
\* distance 0 whose altitudes differ by more than 50 km
ReportedIffQualifyingWitness ==
    /\ FindAllReturned
    /\ Len(result) < call.maxResults
    /\ \E ij, o \in IndexPairs(call.satellites) :
        /\ Reported(call.satellites, ij)
        /\ Abs(call.satellites[o[1]].altitude - call.satellites[o[2]].altitude) > 50
        /\ PairDistance(call.satellites, o, call.time) = 0
        /\ ~Reported(call.satellites, o)

\* C24: for each approach returned by findCloseApproaches the distance is the
\* least of the distances over the sampled instants (every 5 minutes from
\* startTime to the end of the horizon, both included) at which both records
\* have a position, and the time is a sampled instant at which the distance
\* has that value; a candidate without a distance at any instant is not
\* reported, and a failing instant does not end the scan of its pair: when
\* nothing is cut, a candidate whose least distance is <= threshold is reported.
MinimumOverInstants ==
    FindCloseReturned =>
        /\ \A k \in DOMAIN result :
              /\ result[k].distance = LeastSeparation(result[k].satellite2)
              /\ result[k].time \in SampledInstants
              /\ calculateDistance(call.targetSat, result[k].satellite2, result[k].time)
                    = result[k].distance
        /\ \A c \in DOMAIN call.satellites :
              LeastSeparation(call.satellites[c]) = Infinity =>
                  \A k \in DOMAIN result : result[k].satellite2 # call.satellites[c]
        /\ Len(result) < call.maxResults =>
              \A c \in QualifyingCandidates :
                  \E k \in DOMAIN result : result[k].satellite2 = call.satellites[c]

\* C24 witness: an approach is returned for a pair without a distance at the
\* first instant, its minimum being measured at a later one
MinimumOverInstantsWitness ==
    /\ FindCloseReturned
    /\ \E k \in DOMAIN result :
        /\ calculateDistance(call.targetSat, result[k].satellite2, call.startTime) = Null
        /\ result[k].time > call.startTime

-----------------------------------------------------------------------------
(* Properties of getUpcomingPasses *)

UpReturned == upc = "returned"

\* every propagation of the satellite fails
Failing(sat) == sat.kind \in {"broken", "decayed"}

\* the passes calculatePasses returned for the satellites of the call
ComputedPasses ==
    UNION {{computed[k][m] : m \in DOMAIN computed[k]} : k \in DOMAIN computed}

ReturnedPasses == {upResult[k] : k \in DOMAIN upResult}

\* C13: the value getUpcomingPasses returns for a batch in which a satellite
\* failed differs from the empty array, which is the value it returns for a
\* batch with no failure and no pass.
FailureDistinguished ==
    (UpReturned /\ \E k \in DOMAIN satellitesArg : Failing(satellitesArg[k])) =>
        upResult # <<>>

\* C14: getUpcomingPasses returns passes that calculatePasses gave for the
\* satellites of the list, each once, in non-decreasing order of startTime;
\* they are all of them or, if those are more than limit, limit of them, and
\* no pass left out starts earlier than a returned one.
MergedSortedTruncated ==
    UpReturned =>
        /\ Len(computed) = Len(satellitesArg)
        /\ \A k \in 1..(Len(upResult) - 1) :
              upResult[k].startTime <= upResult[k + 1].startTime
        /\ Len(upResult) <= limitArg
        /\ ReturnedPasses \subseteq ComputedPasses
        /\ Cardinality(ReturnedPasses) = Len(upResult)
        /\ Len(upResult) = Min(limitArg, Cardinality(ComputedPasses))
        /\ \A p \in ComputedPasses \ ReturnedPasses :
              \A k \in DOMAIN upResult : upResult[k].startTime <= p.startTime

\* C14 witness: three satellites have a pass each, the first of the list has
\* the latest one, and limit 2 leaves a pass out
MergedSortedWitness ==
    /\ UpReturned
    /\ limitArg = 2
    /\ Len(upResult) = 2
    /\ Len(computed) = 3
    /\ \A k \in DOMAIN computed : Len(computed[k]) = 1
    /\ computed[1][1].startTime > computed[2][1].startTime
    /\ computed[1][1] \notin ReturnedPasses

\* C15: a satellite of the list on which every propagation fails contributes
\* no pass and does not stop the batch: calculatePasses is run for every
\* satellite of the list, and all the passes of each visible satellite,
\* before or after a failing one, are in allPasses when it is truncated.
FailingSatelliteSkipped ==
    UpReturned =>
        /\ Len(computed) = Len(satellitesArg)
        /\ \A k \in DOMAIN satellitesArg :
              IF Failing(satellitesArg[k])
              THEN \A m \in DOMAIN allPasses : allPasses[m].satellite # satellitesArg[k]
              ELSE /\ computed[k] # <<>>
                   /\ \A n \in DOMAIN computed[k] :
                         \E m \in DOMAIN allPasses : allPasses[m] = computed[k][n]

\* C15 witness: a failing satellite stands between two visible ones in the
\* list and allPasses holds a pass of each of the two
FailingSatelliteWitness ==
    /\ UpReturned
    /\ Len(satellitesArg) = 3
    /\ ~Failing(satellitesArg[1])
    /\ Failing(satellitesArg[2])
    /\ ~Failing(satellitesArg[3])
    /\ \E m1, m3 \in DOMAIN allPasses :
        /\ allPasses[m1].satellite = satellitesArg[1]
        /\ allPasses[m3].satellite = satellitesArg[3]

\* C16: two calls of getUpcomingPasses with identical arguments return
\* identical results, whatever ran between them and whenever they run (the
\* satellites and the limit are the same in all the calls of a behaviour).
SameArgumentsSameResult ==
    (UpReturned /\ previous # <<>>) => upResult = previous[1]

-----------------------------------------------------------------------------
(* Properties of the observer location entry *)

\* the text is a number: digits, at least one, after an optional minus sign
Numeric(text) ==
    LET body == IF text # <<>> /\ Head(text) = "-" THEN Tail(text) ELSE text
    IN body # <<>> /\ \A i \in DOMAIN body : IsDigit(body[i])

\* both fields are numbers, the latitude in [-90, 90], the longitude in [-180, 180]
EntryValid ==
    /\ Numeric(locationInput.lat)
    /\ Numeric(locationInput.lng)
    /\ 0 - 90 <= parseFloat(locationInput.lat) /\ parseFloat(locationInput.lat) <= 90
    /\ 0 - 180 <= parseFloat(locationInput.lng) /\ parseFloat(locationInput.lng) <= 180

InRange(location) ==
    \/ location = NullLocation
    \/ /\ 0 - 90 <= location.latitude /\ location.latitude <= 90
       /\ 0 - 180 <= location.longitude /\ location.longitude <= 180

\* C19: applyManualLocation on an entry with a field that is not a number, or
\* with |lat| > 90 or |lng| > 180, leaves userLocation unchanged, and the
\* observer handed to getUpcomingPasses is always in range.
InvalidEntryRejected ==
    [][/\ (applyManualLocation /\ ~EntryValid) => userLocation' = userLocation
       /\ InRange(observerArg')]_vars

-----------------------------------------------------------------------------
(* Properties of the helpers *)

ProbabilityReturned == cpc = "returned" /\ call.fn = "calculateCollisionProbability"

\* the two distances (metres) lie in the same band: critical [0, 1) km,
\* high [1, 5) km, moderate [5, 10) km or low [10, 25) km
SameBand(d1, d2) ==
    \/ 0 <= d1 /\ d1 < 1000 /\ 0 <= d2 /\ d2 < 1000
    \/ 1000 <= d1 /\ d1 < 5000 /\ 1000 <= d2 /\ d2 < 5000
    \/ 5000 <= d1 /\ d1 < 10000 /\ 5000 <= d2 /\ d2 < 10000
    \/ 10000 <= d1 /\ d1 < 25000 /\ 10000 <= d2 /\ d2 < 25000

\* C18 as stated: for any two distances d1 < d2 in the same band the
\* probability for d1 is greater than the probability for d2.
ProbabilityDecreasing ==
    (ProbabilityReturned /\ call.d1 < call.d2 /\ SameBand(call.d1, call.d2)) =>
        result[1] > result[2]

\* C18: for any two distances d1 < d2 in the same band the probability for d1
\* is not less than the probability for d2, and it is greater unless d2 is at
\* most 20 m (0.02 km), where the value of the critical band is capped at 0.99.
ProbabilityNonIncreasing ==
    (ProbabilityReturned /\ call.d1 < call.d2 /\ SameBand(call.d1, call.d2)) =>
        /\ result[1] >= result[2]
        /\ call.d2 > 20 => result[1] > result[2]

\* C18 witness: calculateCollisionProbability is applied to 20 m and 21 m, on
\* the two sides of the end of the cap
ProbabilityWitness ==
    /\ ProbabilityReturned
    /\ call.d1 = 20
    /\ call.d2 = 21
    /\ result[1] > result[2]

QualityReturned == cpc = "returned" /\ call.fn = "getPassQuality"

\* C20: getPassQuality gives excellent iff maxElevation >= 70, good iff
\* 45 <= maxElevation < 70, fair iff 25 <= maxElevation < 45, poor iff
\* maxElevation < 25, so every elevation gets exactly one of the four classes.
QualityByThresholds ==
    QualityReturned =>
        LET e == call.maxElevation
            quality == result[1]
        IN /\ quality \in {"excellent", "good", "fair", "poor"}
           /\ quality = "excellent" <=> e >= 70
           /\ quality = "good" <=> (45 <= e /\ e < 70)
           /\ quality = "fair" <=> (25 <= e /\ e < 45)
           /\ quality = "poor" <=> e < 25

\* C20 witness: getPassQuality is applied to an elevation that is exactly a
\* limit between two classes
QualityWitness ==
    /\ QualityReturned
    /\ call.maxElevation \in {25, 45, 70}
    /\ result[1] # "poor"

-----------------------------------------------------------------------------
(* Properties of useWebSocket *)

\* C27: once disconnect() has run and until the effect calls connect() again,
\* no reconnect timer is pending and no socket has been created
QuietAfterDisconnect ==
    ws.disconnected => ws.timers = 0 /\ ~ws.openedSince

\* a step of onclose: at the maximum it schedules nothing and sets the error,
\* below it it schedules at most one reconnect; a step of onopen resets the counter
BoundedStep ==
    /\ (ws'.last = "close" /\ ws.reconnectAttempts = MAX_RECONNECT_ATTEMPTS)
         => /\ ws'.timers = ws.timers
            /\ ws'.reconnectAttempts = MAX_RECONNECT_ATTEMPTS
            /\ ws'.error = "Failed to connect after maximum attempts"
    /\ (ws'.last = "close" /\ ws.reconnectAttempts < MAX_RECONNECT_ATTEMPTS)
         => ws'.scheduledRun <= ws.scheduledRun + 1
    /\ (ws'.last = "open") => ws'.reconnectAttempts = 0

-----------------------------------------------------------------------------
(* Properties of NotificationService *)

\* C29: scheduleNotification called with an id that is pending replaces the
\* earlier schedule: the timeout set earlier for the id is no longer pending
EarlierScheduleReplaced ==
    (lastCall.op = "scheduleNotification" /\ lastCall.earlier # Null)
        => lastCall.earlier \notin DOMAIN timeouts

\* C30: the notifications of the history have pairwise distinct ids
HistoryIdsDistinct ==
    \A i, j \in DOMAIN notifications : i # j => notifications[i].id # notifications[j].id

====
